---- MODULE Spec2Model ----
(***************************************************************************)
(* The EasyOCR golf-scorecard servers of the repository:                   *)
(*   src/easyocr_server/app.py               /ocr and /extract_scores      *)
(*   src/RoundsVersion2/easyocr_server/app.py  /ocr with text cleaning     *)
(* A Python str is a sequence of one-character strings.  A confidence is   *)
(* an integer number of hundredths (0.5 is 50); a mean is a fraction.      *)
(***************************************************************************)
EXTENDS Integers, Sequences, FiniteSets

VARIABLES request, response, ocr_response, calls, pc, text, cleaned, recleaned

vars == <<request, response, ocr_response, calls, pc, text, cleaned, recleaned>>

\* ------------------------------------------------------------------ bounds
MaxLen == 4
MaxDetections == 3
MaxHoles == 2

\* ------------------------------------------------------- Python str helpers
Whitespace == {" ", "\t"}

DecimalDigits == {"0", "1", "2", "3", "4", "5", "6", "7", "8", "9"}

\* U+00B2 SUPERSCRIPT TWO: str.isdigit() is True for it, int() rejects it.
SuperscriptTwo == "sup2"

IsDigitChars == DecimalDigits \cup {SuperscriptTwo}

DigitValue(c) ==
    CASE c = "0" -> 0 [] c = "1" -> 1 [] c = "2" -> 2 [] c = "3" -> 3
      [] c = "4" -> 4 [] c = "5" -> 5 [] c = "6" -> 6 [] c = "7" -> 7
      [] c = "8" -> 8 [] c = "9" -> 9

\* str.split() with no separator: maximal runs of non-whitespace characters.
RECURSIVE split_from(_, _, _)
split_from(s, i, word) ==
    IF i > Len(s)
    THEN IF word = <<>> THEN <<>> ELSE <<word>>
    ELSE IF s[i] \in Whitespace
         THEN IF word = <<>>
              THEN split_from(s, i + 1, <<>>)
              ELSE <<word>> \o split_from(s, i + 1, <<>>)
         ELSE split_from(s, i + 1, Append(word, s[i]))

split(s) == split_from(s, 1, <<>>)

\* ' '.join(words)
RECURSIVE join(_)
join(words) ==
    IF words = <<>> THEN <<>>
    ELSE IF Len(words) = 1 THEN words[1]
    ELSE words[1] \o <<" ">> \o join(Tail(words))

\* str.replace(old_char, new_char) for one-character arguments.
replace(word, old_char, new_char) ==
    [i \in 1..Len(word) |-> IF word[i] = old_char THEN new_char ELSE word[i]]

\* str.strip()
RECURSIVE lstrip(_)
lstrip(s) ==
    IF s # <<>> /\ s[1] \in Whitespace THEN lstrip(Tail(s)) ELSE s

RECURSIVE rstrip(_)
rstrip(s) ==
    IF s # <<>> /\ s[Len(s)] \in Whitespace
    THEN rstrip(SubSeq(s, 1, Len(s) - 1)) ELSE s

strip(s) == rstrip(lstrip(s))

\* str.isdigit(): non-empty and every character is a digit character.
isdigit(s) == s # <<>> /\ \A i \in 1..Len(s) : s[i] \in IsDigitChars

\* int(s) of a string of digit characters: ok is FALSE where Python raises
\* ValueError (a digit character that is not a decimal digit).
RECURSIVE int_from(_, _, _)
int_from(s, i, acc) ==
    IF i > Len(s) THEN [ok |-> TRUE, value |-> acc]
    ELSE IF s[i] \notin DecimalDigits THEN [ok |-> FALSE, value |-> 0]
    ELSE int_from(s, i + 1, acc * 10 + DigitValue(s[i]))

int(s) == int_from(s, 1, 0)

\* --------------------------------------------------------- clean_golf_text
\* The corrections dict, in insertion order.
corrections_keys == <<"O", "o", "l", "I", "S", "G", "B", "|">>

\* corrections with 'O' mapped to a character that is itself a key.
corrections_mutant(c) ==
    CASE c = "O" -> "l" [] c = "o" -> "0" [] c = "l" -> "1" [] c = "I" -> "1"
      [] c = "S" -> "5" [] c = "G" -> "6" [] c = "B" -> "8" [] c = "|" -> "1"

corrections(c) ==
    CASE c = "O" -> "0" [] c = "o" -> "0" [] c = "l" -> "1" [] c = "I" -> "1"
      [] c = "S" -> "5" [] c = "G" -> "6" [] c = "B" -> "8" [] c = "|" -> "1"

in_corrections(c) == \E k \in 1..Len(corrections_keys) : corrections_keys[k] = c

\* for old_char, new_char in corrections.items(): word = word.replace(...)
RECURSIVE replace_all(_, _)
replace_all(word, k) ==
    IF k > Len(corrections_keys) THEN word
    ELSE replace_all(replace(word, corrections_keys[k],
                             corrections(corrections_keys[k])), k + 1)

\* correct_word with the short-word limit off by one.
correct_word_mutant(word) ==
    IF Len(word) = 1 /\ in_corrections(word[1])
    THEN <<corrections(word[1])>>
    ELSE IF Len(word) <= 4 /\ \E i \in 1..Len(word) : in_corrections(word[i])
         THEN replace_all(word, 1)
         ELSE word

correct_word(word) ==
    IF Len(word) = 1 /\ in_corrections(word[1])
    THEN <<corrections(word[1])>>
    ELSE IF Len(word) <= 3 /\ \E i \in 1..Len(word) : in_corrections(word[i])
         THEN replace_all(word, 1)
         ELSE word

clean_golf_text(t) ==
    IF t = <<>> THEN <<>>
    ELSE LET collapsed == join(split(t))
             words == split(collapsed)
             corrected_words == [i \in 1..Len(words) |-> correct_word(words[i])]
         IN join(corrected_words)

\* --------------------------------------------------------------- requests
\* The recognizer's bbox: four corner points clockwise from the top-left.
Box(x, y) == <<<<x, y>>, <<x + 5, y>>, <<x + 5, y + 5>>, <<x, y + 5>>>>

Raw(t, c, x, y) == [bbox |-> Box(x, y), text |-> t, confidence |-> c]

\* Detections the recognizer may read: scores at several confidences and
\* places (equal places, equal confidences, equal rows), then the boundary
\* and the non-score texts.
RawDetections ==
    {Raw(<<"4">>, 90, 10, 10), Raw(<<"4">>, 70, 50, 0),
     Raw(<<" ", "5">>, 70, 10, 10), Raw(<<" ", "5">>, 90, 50, 0),
     Raw(<<"1", "2">>, 90, 50, 10),
     Raw(<<"4">>, 50, 10, 10), Raw(<<"1", "3">>, 90, 10, 10),
     Raw(<<"0">>, 90, 10, 10), Raw(<<"S">>, 70, 50, 10),
     Raw(<<"p", "a", "r">>, 99, 0, 0), Raw(<<>>, 0, 10, 10),
     Raw(<<SuperscriptTwo>>, 90, 10, 10)}

\* The three detections of the documented end-to-end case.
ExampleResults ==
    <<Raw(<<"4">>, 90, 10, 10), Raw(<<"S">>, 70, 50, 10),
      Raw(<<"p", "a", "r">>, 99, 0, 0)>>

\* What the image field holds: bytes that decode or not, an image the
\* recognizer reads or fails on, and the detections it reads from it.
BadImage == [decodable |-> FALSE, readable |-> FALSE, results |-> <<>>]
UnreadableImage == [decodable |-> TRUE, readable |-> FALSE, results |-> <<>>]
GoodImage(r) == [decodable |-> TRUE, readable |-> TRUE, results |-> r]

Servers == {"easyocr_server", "RoundsVersion2"}

Json(has_image, image, has_holes, holes) ==
    [has_image |-> has_image, image |-> image,
     has_expected_holes |-> has_holes, expected_holes |-> holes]

Post(server, path, json) == [server |-> server, path |-> path, json |-> json]

\* The expected_holes a request may carry: none, or 0..MaxHoles.
HoleFields == {<<FALSE, 0>>} \cup {<<TRUE, h>> : h \in 0..MaxHoles}

\* The requests the servers are sent, with the image i in the image field
\* (or in no field at all).
RequestsWith(has_image, i) ==
    {Post(s, "/ocr", Json(has_image, i, FALSE, 0)) : s \in Servers}
    \cup {Post("easyocr_server", "/extract_scores", Json(has_image, i, f[1], f[2])) :
             f \in HoleFields}

ExampleRequest ==
    Post("easyocr_server", "/extract_scores",
         Json(TRUE, GoodImage(ExampleResults), TRUE, 2))

\* -------------------------------------------------------------- responses
\* processing_time is a clock difference: only where it was measured from
\* is modelled.
SinceOcrEntry == "time.time() - start_time of perform_ocr"
SinceExtractEntry == "time.time() - start_time of extract_scores"

Failure(message, detail, elapsed) ==
    [success |-> FALSE, error |-> [message |-> message, detail |-> detail],
     processing_time |-> elapsed]

Reply(status, body, called) == [status |-> status, body |-> body, calls |-> called]

\* One detection dict from one (bbox, text, confidence) of the recognizer.
detection(r, t) ==
    [text |-> t, confidence |-> r.confidence,
     bbox |-> [x |-> r.bbox[1][1], y |-> r.bbox[1][2],
               width |-> r.bbox[3][1] - r.bbox[1][1],
               height |-> r.bbox[3][2] - r.bbox[1][2]]]

\* ------------------------------------ src/easyocr_server/app.py: /ocr
\* perform_ocr with the 400 of the validation branch left out.
perform_ocr_mutant(json) ==
    IF ~json.has_image
    THEN Reply(200, Failure("Missing image data in request", "", SinceOcrEntry), <<>>)
    ELSE IF ~json.image.decodable
    THEN Reply(500, Failure("OCR processing failed", "decode exception", SinceOcrEntry),
               <<"b64decode">>)
    ELSE IF ~json.image.readable
    THEN Reply(500, Failure("OCR processing failed", "readtext exception", SinceOcrEntry),
               <<"b64decode", "readtext">>)
    ELSE LET results == json.image.results
             detections == [i \in 1..Len(results) |->
                               detection(results[i], results[i].text)]
         IN Reply(200,
                  [success |-> TRUE, detections |-> detections,
                   processing_time |-> SinceOcrEntry,
                   message |-> <<"Found", Len(detections), "text elements">>],
                  <<"b64decode", "readtext">>)

perform_ocr(json) ==
    IF ~json.has_image
    THEN Reply(400, Failure("Missing image data in request", "", SinceOcrEntry), <<>>)
    ELSE IF ~json.image.decodable
    THEN Reply(500, Failure("OCR processing failed", "decode exception", SinceOcrEntry),
               <<"b64decode">>)
    ELSE IF ~json.image.readable
    THEN Reply(500, Failure("OCR processing failed", "readtext exception", SinceOcrEntry),
               <<"b64decode", "readtext">>)
    ELSE LET results == json.image.results
             detections == [i \in 1..Len(results) |->
                               detection(results[i], results[i].text)]
         IN Reply(200,
                  [success |-> TRUE, detections |-> detections,
                   processing_time |-> SinceOcrEntry,
                   message |-> <<"Found", Len(detections), "text elements">>],
                  <<"b64decode", "readtext">>)

\* ---------------------- src/RoundsVersion2/easyocr_server/app.py: /ocr
\* detections.sort(key=confidence, reverse=True): a stable sort, so an
\* element goes behind every element whose confidence is not smaller.
RECURSIVE insert_by_confidence(_, _)
insert_by_confidence(sorted, d) ==
    IF sorted = <<>> THEN <<d>>
    ELSE IF Head(sorted).confidence >= d.confidence
         THEN <<Head(sorted)>> \o insert_by_confidence(Tail(sorted), d)
         ELSE <<d>> \o sorted

RECURSIVE sort_by_confidence(_, _)
sort_by_confidence(detections, n) ==
    IF n = 0 THEN <<>>
    ELSE insert_by_confidence(sort_by_confidence(detections, n - 1), detections[n])

extract_text_with_confidence(results) ==
    LET detections == [i \in 1..Len(results) |->
                          detection(results[i], clean_golf_text(results[i].text))]
    IN sort_by_confidence(detections, Len(detections))

RoundsVersion2_perform_ocr(json) ==
    IF ~json.has_image
    THEN Reply(400, Failure("Missing image data in request", "", SinceOcrEntry), <<>>)
    ELSE IF ~json.image.decodable
    THEN Reply(400, Failure("Invalid image data", "decode exception", SinceOcrEntry),
               <<"b64decode">>)
    ELSE IF ~json.image.readable
    THEN Reply(500, Failure("OCR processing failed", "readtext exception", SinceOcrEntry),
               <<"b64decode", "preprocess_image", "readtext">>)
    ELSE LET detections == extract_text_with_confidence(json.image.results)
         IN Reply(200,
                  [success |-> TRUE, detections |-> detections,
                   processing_time |-> SinceOcrEntry,
                   message |-> <<"Successfully processed", Len(detections),
                                 "text detections">>],
                  <<"b64decode", "preprocess_image", "readtext">>)

\* ------------------- src/easyocr_server/app.py: /extract_scores
DefaultExpectedHoles == 18
MinScore == 1
MaxScore == 12
\* 0.5, in hundredths
ConfidenceThreshold == 50

\* The condition of the filter loop, where int() does not raise.
\* is_score with confidence >= 0.5 in place of > 0.5.
is_score_mutant(d) ==
    LET t == strip(d.text)
    IN isdigit(t) /\ MinScore <= int(t).value /\ int(t).value <= MaxScore
       /\ d.confidence >= ConfidenceThreshold

is_score(d) ==
    LET t == strip(d.text)
    IN isdigit(t) /\ MinScore <= int(t).value /\ int(t).value <= MaxScore
       /\ d.confidence > ConfidenceThreshold

\* int(text) raises ValueError: the loop is left for the except clause.
filter_raises(detections) ==
    \E i \in 1..Len(detections) :
        LET t == strip(detections[i].text) IN isdigit(t) /\ ~int(t).ok

potential_score(d) ==
    [score |-> int(strip(d.text)).value, confidence |-> d.confidence, bbox |-> d.bbox]

potential_scores(detections) ==
    LET kept == SelectSeq(detections, is_score)
    IN [i \in 1..Len(kept) |-> potential_score(kept[i])]

\* The sort key (bbox.y, bbox.x), compared as Python compares tuples.
\* position_le with the key (bbox.x, bbox.y).
position_le_mutant(a, b) ==
    \/ a.bbox.x < b.bbox.x
    \/ a.bbox.x = b.bbox.x /\ a.bbox.y <= b.bbox.y

position_le(a, b) ==
    \/ a.bbox.y < b.bbox.y
    \/ a.bbox.y = b.bbox.y /\ a.bbox.x <= b.bbox.x

\* potential_scores.sort(key=...): stable, ascending.
RECURSIVE insert_by_position(_, _)
insert_by_position(sorted, s) ==
    IF sorted = <<>> THEN <<s>>
    ELSE IF position_le(Head(sorted), s)
         THEN <<Head(sorted)>> \o insert_by_position(Tail(sorted), s)
         ELSE <<s>> \o sorted

RECURSIVE sort_by_position(_, _)
sort_by_position(scores, n) ==
    IF n = 0 THEN <<>>
    ELSE insert_by_position(sort_by_position(scores, n - 1), scores[n])

\* seq[:n] for n >= 0
slice(seq, n) == SubSeq(seq, 1, IF n < Len(seq) THEN n ELSE Len(seq))

RECURSIVE sum(_)
sum(seq) == IF seq = <<>> THEN 0 ELSE Head(seq) + sum(Tail(seq))

RECURSIVE gcd(_, _)
gcd(a, b) == IF b = 0 THEN a ELSE gcd(b, a % b)

\* A quotient of hundredths, as a fraction in lowest terms.
fraction(n, d) == [num |-> n \div gcd(n, d), den |-> d \div gcd(n, d)]

\* np.mean of a non-empty list
mean(seq) == fraction(sum(seq), Len(seq))

\* score_report averaging over every candidate, not the slice taken.
score_report_mutant(sorted_scores, expected_holes) ==
    LET taken == slice(sorted_scores, expected_holes)
        scores == [i \in 1..Len(taken) |-> taken[i].score]
        avg_confidence ==
            IF scores # <<>>
            THEN mean([i \in 1..Len(sorted_scores) |-> sorted_scores[i].confidence])
            ELSE fraction(0, 1)
    IN [success |-> TRUE, scores |-> scores, total |-> sum(scores),
        confidence |-> avg_confidence, holes_found |-> Len(scores),
        expected_holes |-> expected_holes, processing_time |-> SinceExtractEntry]

score_report(sorted_scores, expected_holes) ==
    LET taken == slice(sorted_scores, expected_holes)
        scores == [i \in 1..Len(taken) |-> taken[i].score]
        avg_confidence ==
            IF scores # <<>>
            THEN mean([i \in 1..Len(taken) |-> taken[i].confidence])
            ELSE fraction(0, 1)
    IN [success |-> TRUE, scores |-> scores, total |-> sum(scores),
        confidence |-> avg_confidence, holes_found |-> Len(scores),
        expected_holes |-> expected_holes, processing_time |-> SinceExtractEntry]

extract_scores(json) ==
    LET ocr == perform_ocr(json)
        ocr_data == ocr.body
    IN IF ~ocr_data.success
       THEN \* return ocr_data: a dict, which Flask sends with status 200
            Reply(200, ocr_data, ocr.calls)
       ELSE LET detections == ocr_data.detections
                expected_holes == IF json.has_expected_holes
                                  THEN json.expected_holes
                                  ELSE DefaultExpectedHoles
            IN IF filter_raises(detections)
               THEN Reply(500, Failure("Score extraction failed", "ValueError",
                                       SinceExtractEntry), ocr.calls)
               ELSE LET found == potential_scores(detections)
                        sorted_scores == sort_by_position(found, Len(found))
                    IN Reply(200, score_report(sorted_scores, expected_holes),
                             ocr.calls)

\* ---------------------------------------------------------------- actions
NoReply == [status |-> 0, body |-> [success |-> FALSE]]

Sent(r) == [status |-> r.status, body |-> r.body]

Init ==
    /\ \/ request \in RequestsWith(FALSE, BadImage)
       \/ request \in RequestsWith(TRUE, BadImage)
       \/ request \in RequestsWith(TRUE, UnreadableImage)
       \/ \E n \in 0..MaxDetections : \E r \in [1..n -> RawDetections] :
              request \in RequestsWith(TRUE, GoodImage(r))
       \/ request = ExampleRequest
    /\ response = NoReply
    /\ ocr_response = NoReply
    /\ calls = <<>>
    /\ pc = "received"
    /\ text = <<>>
    /\ cleaned = <<>>
    /\ recleaned = <<>>

PerformOcr ==
    /\ pc = "received"
    /\ request.server = "easyocr_server"
    /\ request.path = "/ocr"
    /\ LET r == perform_ocr(request.json)
       IN response' = Sent(r) /\ calls' = r.calls
    /\ pc' = "responded"
    /\ UNCHANGED <<request, ocr_response, text, cleaned, recleaned>>

RoundsVersion2PerformOcr ==
    /\ pc = "received"
    /\ request.server = "RoundsVersion2"
    /\ request.path = "/ocr"
    /\ LET r == RoundsVersion2_perform_ocr(request.json)
       IN response' = Sent(r) /\ calls' = r.calls
    /\ pc' = "responded"
    /\ UNCHANGED <<request, ocr_response, text, cleaned, recleaned>>

ExtractScores ==
    /\ pc = "received"
    /\ request.server = "easyocr_server"
    /\ request.path = "/extract_scores"
    /\ LET r == extract_scores(request.json)
       IN response' = Sent(r) /\ calls' = r.calls
    /\ ocr_response' = Sent(perform_ocr(request.json))
    /\ pc' = "responded"
    /\ UNCHANGED <<request, text, cleaned, recleaned>>

Next == PerformOcr \/ RoundsVersion2PerformOcr \/ ExtractScores

Spec == Init /\ [][Next]_vars

\* ------------------------------------- clean_golf_text on its own inputs
Alphabet == {"O", "l", "S", "|", "C", "4", " ", "\t"}

DocumentedTexts ==
    {<<"O">>, <<"l", "I">>, <<"C", "A", "R", "D">>,
     <<" ", " ", "4", " ", " ", " ", "5", " ">>}

Texts == UNION {[1..n -> Alphabet] : n \in 0..MaxLen} \cup DocumentedTexts

InitClean ==
    /\ text \in Texts
    /\ cleaned = <<>>
    /\ recleaned = <<>>
    /\ pc = "text"
    /\ request = ExampleRequest
    /\ response = NoReply
    /\ ocr_response = NoReply
    /\ calls = <<>>

Clean ==
    /\ pc = "text"
    /\ cleaned' = clean_golf_text(text)
    /\ pc' = "cleaned"
    /\ UNCHANGED <<text, recleaned, request, response, ocr_response, calls>>

CleanAgain ==
    /\ pc = "cleaned"
    /\ recleaned' = clean_golf_text(cleaned)
    /\ pc' = "recleaned"
    /\ UNCHANGED <<text, cleaned, request, response, ocr_response, calls>>

NextClean == Clean \/ CleanAgain

SpecClean == InitClean /\ [][NextClean]_vars

\* ================================================================= claims
\* ---- the documented behaviour of clean, stated without the code's helpers
\* The substitution table of the Text Normalizer.
Table ==
    [c \in {"O", "o", "l", "I", "S", "G", "B", "|"} |->
        IF c \in {"O", "o"} THEN "0"
        ELSE IF c \in {"l", "I", "|"} THEN "1"
        ELSE IF c = "S" THEN "5"
        ELSE IF c = "G" THEN "6" ELSE "8"]

\* A token is a maximal run of non-whitespace characters.
TokenStarts(s) ==
    {i \in 1..Len(s) : s[i] \notin Whitespace /\ (i = 1 \/ s[i - 1] \in Whitespace)}

TokenAt(s, i) ==
    LET j == CHOOSE e \in i..Len(s) :
                 /\ \A k \in i..e : s[k] \notin Whitespace
                 /\ (e = Len(s) \/ s[e + 1] \in Whitespace)
    IN SubSeq(s, i, j)

\* The k-th token of s, k in 1..Cardinality(TokenStarts(s)).
Token(s, k) ==
    LET i == CHOOSE a \in TokenStarts(s) :
                 Cardinality({b \in TokenStarts(s) : b < a}) = k - 1
    IN TokenAt(s, i)

ExpectedToken(tok) ==
    IF Len(tok) <= 3 /\ \E i \in 1..Len(tok) : tok[i] \in DOMAIN Table
    THEN [i \in 1..Len(tok) |-> IF tok[i] \in DOMAIN Table THEN Table[tok[i]] ELSE tok[i]]
    ELSE tok

SingleSpaced(s) ==
    /\ \A i \in 1..Len(s) : s[i] \in Whitespace => s[i] = " "
    /\ s # <<>> => s[1] # " " /\ s[Len(s)] # " "
    /\ \A i \in 1..(Len(s) - 1) : ~(s[i] = " " /\ s[i + 1] = " ")

\* C4: clean is idempotent: cleaning an already cleaned string returns it
\* unchanged, clean(clean(s)) = clean(s).
C4_CleanIdempotent == pc = "recleaned" => recleaned = cleaned

\* C4 witness: a string that cleaning changed has been cleaned twice.
C4_Witness ==
    /\ pc = "recleaned"
    /\ cleaned # text
    /\ \E i \in 1..Len(text) : text[i] \in DOMAIN Table
    /\ \E i \in 1..Len(text) : text[i] \in Whitespace

\* C9: clean splits on whitespace runs and rejoins with single spaces
\* (nothing left for empty or whitespace-only input); the number of tokens
\* and each token's length are kept; a token of length <= 3 holding a mapped
\* character has every mapped character replaced by its digit, every other
\* token is unchanged; and the four documented examples come out as stated.
C9_CleanPerToken ==
    pc = "cleaned" =>
        /\ SingleSpaced(cleaned)
        /\ TokenStarts(text) = {} => cleaned = <<>>
        /\ Cardinality(TokenStarts(cleaned)) = Cardinality(TokenStarts(text))
        /\ \A k \in 1..Cardinality(TokenStarts(text)) :
              /\ Len(Token(cleaned, k)) = Len(Token(text, k))
              /\ Token(cleaned, k) = ExpectedToken(Token(text, k))
        /\ text = <<"O">> => cleaned = <<"0">>
        /\ text = <<"l", "I">> => cleaned = <<"1", "1">>
        /\ text = <<"C", "A", "R", "D">> => cleaned = <<"C", "A", "R", "D">>
        /\ text = <<" ", " ", "4", " ", " ", " ", "5", " ">> => cleaned = <<"4", " ", "5">>

\* C9 witness: two tokens between whitespace runs, the first one corrected.
C9_Witness ==
    /\ pc = "cleaned"
    /\ text = <<"\t", "S", " ", "4">>
    /\ cleaned = <<"5", " ", "4">>

\* ---- the documented Score Extractor, stated without the code's helpers
Trimmed(t) ==
    LET inked == {i \in 1..Len(t) : t[i] \notin Whitespace}
    IN IF inked = {} THEN <<>>
       ELSE SubSeq(t, CHOOSE a \in inked : \A b \in inked : a <= b,
                      CHOOSE a \in inked : \A b \in inked : a >= b)

RECURSIVE Power10(_)
Power10(n) == IF n = 0 THEN 1 ELSE 10 * Power10(n - 1)

RECURSIVE PositionalSum(_, _)
PositionalSum(t, i) ==
    IF i > Len(t) THEN 0
    ELSE DigitValue(t[i]) * Power10(Len(t) - i) + PositionalSum(t, i + 1)

AllDecimal(t) == t # <<>> /\ \A i \in 1..Len(t) : t[i] \in DecimalDigits

\* The filter of the Score Extractor, as documented.
PassesFilter(d) ==
    /\ AllDecimal(Trimmed(d.text))
    /\ PositionalSum(Trimmed(d.text), 1) \in 1..12
    /\ d.confidence > 50

HoleScore(d) == PositionalSum(Trimmed(d.text), 1)

Candidates(dets) == {i \in 1..Len(dets) : PassesFilter(dets[i])}

\* Reading order: ascending y, then ascending x, then input order.
Before(dets, i, j) ==
    \/ dets[i].bbox.y < dets[j].bbox.y
    \/ dets[i].bbox.y = dets[j].bbox.y /\ dets[i].bbox.x < dets[j].bbox.x
    \/ dets[i].bbox.y = dets[j].bbox.y /\ dets[i].bbox.x = dets[j].bbox.x /\ i < j

\* The 1-based place of candidate i in reading order.
Place(dets, i) == 1 + Cardinality({j \in Candidates(dets) : Before(dets, j, i)})

Minimum(a, b) == IF a <= b THEN a ELSE b

\* The candidates that contribute to a report for h expected holes.
Contributing(dets, h) == {i \in Candidates(dets) : Place(dets, i) <= h}

RECURSIVE Total(_, _)
Total(f, S) ==
    IF S = {} THEN 0
    ELSE LET i == CHOOSE x \in S : TRUE IN f[i] + Total(f, S \ {i})

\* A successful /extract_scores exchange, its input and its report.
Extracted ==
    /\ pc = "responded"
    /\ request.path = "/extract_scores"
    /\ response.status = 200
    /\ response.body.success

Supplied == ocr_response.body.detections

Report == response.body

\* C1: the score report has at most expected_holes scores and at most as
\* many as detections pass the filter; total is the sum of scores;
\* holes_found is their number; confidence is the mean of the confidences of
\* the candidates that contributed, and 0.0 when there are no scores.
C1_ReportAggregates ==
    Extracted =>
        LET h == Report.expected_holes
            used == Contributing(Supplied, h)
            confidences == [i \in 1..Len(Supplied) |-> Supplied[i].confidence]
        IN /\ h >= 0
           /\ Len(Report.scores) <= h
           /\ Len(Report.scores) <= Cardinality(Candidates(Supplied))
           /\ Report.total = Total(Report.scores, DOMAIN Report.scores)
           /\ Report.holes_found = Len(Report.scores)
           /\ Cardinality(used) = Len(Report.scores)
           /\ Report.confidence.den > 0
           /\ Report.confidence.num * Cardinality(used)
                = Total(confidences, used) * Report.confidence.den
           /\ Report.scores = <<>> => Report.confidence.num = 0

\* C1 witness: a report truncated to fewer scores than candidates, whose
\* contributing candidates have different confidences.
C1_Witness ==
    /\ Extracted
    /\ Len(Report.scores) = 2
    /\ Cardinality(Candidates(Supplied)) = 3
    /\ Report.confidence = [num |-> 80, den |-> 1]
    /\ \E i \in Candidates(Supplied) \ Contributing(Supplied, 2) :
          Supplied[i].confidence # 80

\* C2: a detection is a score candidate if and only if its trimmed text is
\* all decimal digits, its value is in 1..12 and its confidence is above
\* 0.5: "13", "0" and confidence exactly 0.5 are never candidates, and every
\* reported score is in 1..12.
C2_FilterExact ==
    Extracted =>
        /\ \A k \in 1..Len(Report.scores) : Report.scores[k] \in 1..12
        /\ \A v \in 1..12 :
              Cardinality({k \in 1..Len(Report.scores) : Report.scores[k] = v})
                <= Cardinality({i \in Candidates(Supplied) : HoleScore(Supplied[i]) = v})
        /\ Report.expected_holes >= Len(Supplied) =>
              \A v \in 1..12 :
                Cardinality({k \in 1..Len(Report.scores) : Report.scores[k] = v})
                  = Cardinality({i \in Candidates(Supplied) : HoleScore(Supplied[i]) = v})
        /\ (\A i \in 1..Len(Supplied) :
               \/ Supplied[i].text \in {<<"1", "3">>, <<"0">>}
               \/ Supplied[i].confidence = 50)
             => Report.scores = <<>>

\* C2 witness: with room for every candidate, a detection at confidence
\* exactly 0.5 and a "13" were both left out and a trimmed " 5" was kept.
C2_Witness ==
    /\ Extracted
    /\ Report.expected_holes >= Len(Supplied)
    /\ Len(Supplied) = 3
    /\ Supplied[1].text = <<"4">> /\ Supplied[1].confidence = 50
    /\ Supplied[2].text = <<"1", "3">>
    /\ Supplied[3].text = <<" ", "5">> /\ Supplied[3].confidence = 70
    /\ Report.scores = <<5>>

\* C10: scores is exactly the first min(expected_holes, number of
\* candidates) candidates in reading order (ascending y, then ascending x,
\* equal positions in the order supplied); truncation comes after ordering.
C10_ReadingOrderPrefix ==
    Extracted =>
        LET h == Report.expected_holes
        IN /\ Len(Report.scores) = Minimum(h, Cardinality(Candidates(Supplied)))
           /\ \A i \in Candidates(Supplied) :
                 Place(Supplied, i) <= h =>
                     Report.scores[Place(Supplied, i)] = HoleScore(Supplied[i])

\* C10 witness: the candidate supplied first is later in reading order and
\* is the one truncation drops.
C10_Witness ==
    /\ Extracted
    /\ Report.expected_holes = 1
    /\ Candidates(Supplied) = {1, 2}
    /\ Before(Supplied, 2, 1)
    /\ HoleScore(Supplied[1]) # HoleScore(Supplied[2])
    /\ Report.scores = <<HoleScore(Supplied[2])>>

\* ---- the documented request handling
Responded == pc = "responded"

\* What perform_ocr returned for the request: the response of POST /ocr,
\* or the result extract_scores got from its call of perform_ocr.
OcrReply == IF request.path = "/ocr" THEN response ELSE ocr_response

FailureShaped(body) ==
    /\ ~body.success
    /\ DOMAIN body = {"success", "error", "processing_time"}

Ranked(s) ==
    (Responded /\ request.path = "/ocr" /\ request.server = s
       /\ response.status = 200) =>
        LET raw == request.json.image.results
            dets == response.body.detections
            n == Len(raw)
        IN /\ Len(dets) = n
           /\ \A i \in 1..(n - 1) : dets[i].confidence >= dets[i + 1].confidence
           /\ \E p \in [1..n -> 1..n] :
                 /\ \A i, j \in 1..n : i # j => p[i] # p[j]
                 /\ \A i \in 1..n :
                       /\ dets[i].confidence = raw[p[i]].confidence
                       /\ dets[i].bbox.x = raw[p[i]].bbox[1][1]
                       /\ dets[i].bbox.y = raw[p[i]].bbox[1][2]
                       /\ dets[i].text \in {raw[p[i]].text, clean_golf_text(raw[p[i]].text)}
                 /\ \A i, j \in 1..n :
                       (i < j /\ dets[i].confidence = dets[j].confidence) => p[i] < p[j]

\* C5: the detection list of an /ocr response has one entry per raw
\* detection, is sorted by non-increasing confidence and keeps detections
\* of equal confidence in input order.
C5_RankedDetections == \A s \in Servers : Ranked(s)

\* POST /ocr of server s answers an undecodable image with 400 and a
\* recognizer failure with 500, both with a failure body.
StatusByErrorKind(s) ==
    (Responded /\ request.path = "/ocr" /\ request.server = s
       /\ request.json.has_image) =>
        /\ ~request.json.image.decodable =>
              response.status = 400 /\ FailureShaped(response.body)
        /\ (request.json.image.decodable /\ ~request.json.image.readable) =>
              response.status = 500 /\ FailureShaped(response.body)

\* C8: on POST /ocr an undecodable image (ImageDecodeError) is answered
\* with 400 and a recognizer failure (RecognitionError) with 500, with
\* success false, an error, a processing_time and no detections.
C8_StatusByErrorKind == \A s \in Servers : StatusByErrorKind(s)

\* C6: when the OCR step of /extract_scores fails, the response is the
\* /ocr failure as it is: the same status (400 or 500) and the same body,
\* with no scores.
C6_FailureForwarded ==
    (Responded /\ request.path = "/extract_scores"
       /\ ~ocr_response.body.success) =>
        /\ response.status = ocr_response.status
        /\ response.status \in {400, 500}
        /\ response.body = ocr_response.body
        /\ "scores" \notin DOMAIN response.body

\* C3: on the score-extraction path every detection text is cleaned before
\* the filter, so the documented three detections with expected_holes 2
\* give scores [4, 5], total 9, confidence 0.8, holes_found 2.
C3_CleanedBeforeExtract ==
    (Responded /\ request = ExampleRequest) =>
        /\ \A i \in 1..Len(Supplied) :
              Supplied[i].text = clean_golf_text(request.json.image.results[i].text)
        /\ response.status = 200
        /\ Report.scores = <<4, 5>>
        /\ Report.total = 9
        /\ Report.confidence = [num |-> 80, den |-> 1]
        /\ Report.holes_found = 2

====
